---- MODULE Spec2Model ----
(***************************************************************************)
(* Model of stock_sentiment/sentiment_analyzer.py: the Scorer              *)
(* (analyze_single_news over _call_llm), the concurrent batch collector    *)
(* (analyze_news_batch over a ThreadPoolExecutor) and the reduction        *)
(* (aggregate_sentiment), as called by main.py's analyze_stock.            *)
(*                                                                         *)
(* Conventions.                                                            *)
(*  - A Python dict is a function whose DOMAIN is the set of keys present; *)
(*    d.get(k, default) is Get(d, k, default).                             *)
(*  - A JSON value stored under "score" or "confidence" is tagged:         *)
(*    Num(n) for a number, NonNum for a value Python cannot order against  *)
(*    0 or multiply by a float (a string, null, a list).                   *)
(*  - A reply text is a sequence of tokens (see Tokens).                   *)
(*  - Python floats are IEEE-754 doubles (see RoundNearest); a value       *)
(*    rounded to 2 places is kept in hundredths (6667 is 66.67).           *)
(*  - Sequences are 1-based: slot i here is results[i-1] in the code.      *)
(***************************************************************************)
EXTENDS Integers, Sequences, FiniteSets, TLC

VARIABLES
    \* ---- analyze_news_batch / analyze_stock
    news_list,      \* the input articles, in input order
    max_workers,    \* self.max_workers, the pool size
    pc,             \* position of the calling thread
    submitted,      \* number of futures created so far by the dict comprehension
    future_to_idx,  \* future (by submission number) -> input index
    fut,            \* per future: state and outcome of the worker's task
    yielded,        \* futures as_completed has handed to the loop, in that order
    results,        \* the pre-sized result list; None until filled
    calls,          \* per article: number of backend calls issued (observer)
    attempts,       \* per article: number of times the scorer was entered (observer)
    verdict,        \* what aggregate_sentiment returned to analyze_stock
    \* ---- analyze_single_news on its own
    sc_news, sc_fault, sc_outcome, sc_pc, sc_result,
    \* ---- aggregate_sentiment on its own
    ag_input, ag_pc, ag_out

batchVars == <<news_list, max_workers, pc, submitted, future_to_idx, fut,
               yielded, results, calls, attempts, verdict>>
scoreVars == <<sc_news, sc_fault, sc_outcome, sc_pc, sc_result>>
aggVars   == <<ag_input, ag_pc, ag_out>>
vars      == <<batchVars, scoreVars, aggVars>>

(***************************************************************************)
(* Bounds of the model.                                                    *)
(***************************************************************************)
MaxArticles == 2
MaxPool == 2
MaxTextLen == 3
MaxJudgments == 2

(***************************************************************************)
(* Python values.                                                          *)
(***************************************************************************)
None == [none |-> TRUE]

Get(d, k, default) == IF k \in DOMAIN d THEN d[k] ELSE default

Num(n) == [isnum |-> TRUE, val |-> n]
NonNum == [isnum |-> FALSE, val |-> 0]

\* Articles: dicts as the news source supplies them; a key may be absent.
Articles ==
    { [ticker |-> "AAPL", title |-> "t1", description |-> "d1",
       published_utc |-> "2026-02-05", source |-> "Reuters"],
      [ticker |-> "AAPL", description |-> "d2"] }

(***************************************************************************)
(* The scoring backend.  An outcome of one HTTP POST is one of: a          *)
(* transport error or a timeout (requests.post raises), a non-success HTTP *)
(* status (raise_for_status raises), a body whose code is not 200, a body  *)
(* with code 200 and no outputs, or a body with code 200 whose first       *)
(* output is a text.                                                       *)
(***************************************************************************)
RecTokens == {"obj_ok", "obj_low", "obj_partial", "obj_range", "obj_nonnum"}
Tokens == {"FENCE", "json", "ws", "prose", "null"} \cup RecTokens

\* The JSON object a record token spells out.
JsonObject(tok) ==
    CASE tok = "obj_ok" ->
           [sentiment |-> "bullish", score |-> Num(80), confidence |-> Num(100),
            reason |-> "r"]
      [] tok = "obj_low" ->
           [sentiment |-> "bearish", score |-> Num(0), confidence |-> Num(0),
            reason |-> "r"]
      [] tok = "obj_partial" ->
           [sentiment |-> "bullish", reason |-> "r"]
      [] tok = "obj_range" ->
           [sentiment |-> "positive", score |-> Num(150), confidence |-> Num(-5),
            reason |-> "r", title |-> "spoofed"]
      [] tok = "obj_nonnum" ->
           [sentiment |-> "neutral", score |-> Num(50), confidence |-> NonNum,
            reason |-> "r"]

SeqsUpTo(S, n) == UNION { [1..k -> S] : k \in 0..n }

Texts == SeqsUpTo(Tokens, MaxTextLen)

FailureKinds == {"transport_error", "timeout", "http_error", "malformed_body",
                 "failure_envelope", "empty_outputs"}

NoText == <<>>

BackendOutcomes ==
    { [kind |-> k, text |-> NoText] : k \in FailureKinds }
    \cup { [kind |-> "text", text |-> t] : t \in Texts }

(***************************************************************************)
(* _call_llm: the text of the first output, or an exception.               *)
(***************************************************************************)
LlmReturn(t) == [raised |-> FALSE, text |-> t, exc |-> "none"]
LlmRaise(e)  == [raised |-> TRUE, text |-> NoText, exc |-> e]

_call_llm(outcome) ==
    IF outcome.kind \in {"transport_error", "timeout"}
    THEN LlmRaise("RequestException")            \* requests.post raises
    ELSE IF outcome.kind = "http_error"
    THEN LlmRaise("HTTPError")                   \* raise_for_status
    ELSE IF outcome.kind = "malformed_body"
    THEN LlmRaise("JSONDecodeError")             \* response.json()
    ELSE IF outcome.kind = "text"                \* code == 200 and outputs
    THEN LlmReturn(outcome.text)
    ELSE LlmRaise("RuntimeError")                \* "LLM API error: ..."

(***************************************************************************)
(* Cleaning of markdown code blocks, on token sequences.  "```json" is the *)
(* token FENCE directly followed by the token json.                        *)
(***************************************************************************)
FenceJsonAt(t, i) == i + 1 <= Len(t) /\ t[i] = "FENCE" /\ t[i + 1] = "json"
FenceAt(t, i) == t[i] = "FENCE"

HasFenceJson(t) == \E i \in 1..Len(t) : FenceJsonAt(t, i)
HasFence(t) == \E i \in 1..Len(t) : FenceAt(t, i)

\* Positions i..Len(t) at which a separator starts; Len(t)+1 when none does.
FirstFenceJsonFrom(t, from) ==
    LET hits == { i \in from..Len(t) : FenceJsonAt(t, i) }
    IN  IF hits = {} THEN Len(t) + 1
        ELSE CHOOSE i \in hits : \A j \in hits : i <= j
FirstFenceFrom(t, from) ==
    LET hits == { i \in from..Len(t) : FenceAt(t, i) }
    IN  IF hits = {} THEN Len(t) + 1
        ELSE CHOOSE i \in hits : \A j \in hits : i <= j

Slice(t, a, b) == [k \in 1..(IF b >= a THEN b - a + 1 ELSE 0) |-> t[a + k - 1]]

\* t.split("```json")[1], for a t that contains "```json"
SplitFenceJson1(t) ==
    LET a == FirstFenceJsonFrom(t, 1) + 2
    IN  Slice(t, a, FirstFenceJsonFrom(t, a) - 1)
\* t.split("```")[1], for a t that contains "```"
SplitFence1(t) ==
    LET a == FirstFenceFrom(t, 1) + 1
    IN  Slice(t, a, FirstFenceFrom(t, a) - 1)
\* t.split("```")[0]
SplitFence0(t) == Slice(t, 1, FirstFenceFrom(t, 1) - 1)

\* t.strip()
Strip(t) ==
    LET solid == { i \in 1..Len(t) : t[i] # "ws" }
    IN  IF solid = {} THEN <<>>
        ELSE Slice(t, CHOOSE i \in solid : \A j \in solid : i <= j,
                      CHOOSE i \in solid : \A j \in solid : i >= j)

CleanMarkdown(t) ==
    IF HasFenceJson(t) THEN Strip(SplitFence0(SplitFenceJson1(t)))
    ELSE IF HasFence(t) THEN Strip(SplitFence0(SplitFence1(t)))
    ELSE t

(***************************************************************************)
(* json.loads: surrounding whitespace is skipped; exactly one JSON value   *)
(* must remain.  A record token is an object, null is a non-object value,  *)
(* anything else is a JSONDecodeError.                                     *)
(***************************************************************************)
JsonDict(d)  == [raised |-> FALSE, isdict |-> TRUE, value |-> d]
JsonScalar   == [raised |-> FALSE, isdict |-> FALSE, value |-> <<>>]
JsonError    == [raised |-> TRUE, isdict |-> FALSE, value |-> <<>>]

json_loads(t) ==
    LET core == Strip(t)
    IN  IF Len(core) = 1 /\ core[1] \in RecTokens THEN JsonDict(JsonObject(core[1]))
        ELSE IF Len(core) = 1 /\ core[1] = "null" THEN JsonScalar
        ELSE JsonError

(***************************************************************************)
(* analyze_single_news and _default_result.                                *)
(***************************************************************************)
Return(v) == [raised |-> FALSE, value |-> v]
Raise(e)  == [raised |-> TRUE, value |-> [exc |-> e]]

\* d with d[k] = v, as the statement d[k] = v leaves it
SetItem(d, k, v) == [x \in DOMAIN d \cup {k} |-> IF x = k THEN v ELSE d[x]]

_default_result(news) ==
    [sentiment |-> "neutral", score |-> Num(50), confidence |-> Num(0),
     reason |-> "Analysis failed, using default",
     title |-> Get(news, "title", ""),
     source |-> Get(news, "source", ""),
     published_utc |-> Get(news, "published_utc", "")]

\* "Attach original news info"
AttachNews(result, news) ==
    SetItem(SetItem(SetItem(result,
        "title", Get(news, "title", "")),
        "source", Get(news, "source", "")),
        "published_utc", Get(news, "published_utc", ""))

\* Variant: the except clauses let the exception escape.
ScorerHandlerReraise(news, exc) == Raise(exc)

\* Both except clauses of analyze_single_news: whatever was raised inside the
\* try, the default result is returned.
ScorerHandler(news, exc) == Return(_default_result(news))

\* fault: the statements before the try (building the prompt) raise.
analyze_single_news(news, fault, outcome) ==
    IF fault THEN Raise("PromptError")
    ELSE LET reply == _call_llm(outcome) IN
         IF reply.raised THEN ScorerHandler(news, reply.exc)
         ELSE LET parsed == json_loads(CleanMarkdown(reply.text)) IN
              IF parsed.raised THEN ScorerHandler(news, "JSONDecodeError")
              ELSE IF ~parsed.isdict THEN ScorerHandler(news, "TypeError")
              ELSE Return(AttachNews(parsed.value, news))

(***************************************************************************)
(* Python floats: IEEE-754 binary64, round to nearest, ties to even.       *)
(* A natural number wider than TLC's 32-bit integers is a little-endian    *)
(* sequence of limbs in base 2^15; a float is [neg, m, e], the value       *)
(* (-1)^neg * m * 2^e with m < 2^53 after rounding.  The exponents met     *)
(* here are far from the subnormal and overflow ranges.  The accumulations *)
(* of aggregate_sentiment add and multiply non-negative values only: the   *)
(* scores drawn as inputs are integers >= 0.                               *)
(***************************************************************************)
Base == 2^15

\* The value F(x) for x the value of v.  The set binds x to the value itself,
\* so v is computed once however often F mentions x.
Bind(v, F(_)) == CHOOSE r \in { F(x) : x \in {v} } : TRUE
Bind2(v, w, F(_, _)) == CHOOSE r \in { F(x, y) : x \in {v}, y \in {w} } : TRUE

\* A number of six limbs, limb i given by F(i).
Limbs(F(_)) == <<F(1), F(2), F(3), F(4), F(5), F(6)>>
LimbIdx == 1..6
MantissaBits == 53

BZero == Limbs(LAMBDA i : 0)
BFromInt(n) ==
    Bind(n, LAMBDA k :
        Limbs(LAMBDA i : IF i = 1 THEN k % Base ELSE IF i = 2 THEN k \div Base ELSE 0))
BToInt(a) == Bind(a, LAMBDA x : x[1] + x[2] * Base)
BIsZero(a) == Bind(a, LAMBDA x : \A i \in LimbIdx : x[i] = 0)
Limb(a, i) == IF i \in LimbIdx THEN a[i] ELSE 0

BLess(a, b) ==
    Bind2(a, b, LAMBDA x, y :
        \E i \in LimbIdx : x[i] < y[i] /\ \A j \in LimbIdx : j > i => x[j] = y[j])

\* The carries out of limbs 1..6 of a sum of limbs S(i), carry c into limb i
RECURSIVE Carries(_, _, _)
Carries(S(_), i, c) ==
    IF i > 6 THEN << >>
    ELSE Bind((S(i) + c) \div Base, LAMBDA d : <<d>> \o Carries(S, i + 1, d))

BAdd(a, b) ==
    Bind2(a, b, LAMBDA x, y :
        Bind(<<0>> \o Carries(LAMBDA i : x[i] + y[i], 1, 0), LAMBDA carry :
            Limbs(LAMBDA i : (x[i] + y[i] + carry[i]) % Base)))

\* a - b for a >= b
BSub(a, b) ==
    Bind2(a, b, LAMBDA x, y :
        Bind(<<0>> \o Carries(LAMBDA i : x[i] - y[i], 1, 0), LAMBDA borrow :
            Limbs(LAMBDA i : (x[i] - y[i] + borrow[i]) % Base)))

\* a * k for 0 <= k < 2^15
BMulSmall(a, k) ==
    Bind2(a, k, LAMBDA x, n :
        Bind(<<0>> \o Carries(LAMBDA i : x[i] * n, 1, 0), LAMBDA carry :
            Limbs(LAMBDA i : (x[i] * n + carry[i]) % Base)))

\* a * 2^k and a \div 2^k
BShl(a, k) ==
    Bind2(a, k, LAMBDA x, n :
        Bind2(n \div 15, n % 15, LAMBDA L, r :
            Limbs(LAMBDA i :
                (Limb(x, i - L) % 2^(15 - r)) * 2^r + Limb(x, i - L - 1) \div 2^(15 - r))))
BShr(a, k) ==
    Bind2(a, k, LAMBDA x, n :
        Bind2(n \div 15, n % 15, LAMBDA L, r :
            Limbs(LAMBDA i :
                Limb(x, i + L) \div 2^r + (Limb(x, i + L + 1) % 2^r) * 2^(15 - r))))

\* bit i of a (bit 0 is the lowest), and whether a bit below i is set
BBit(a, i) == Bind(i, LAMBDA n : (Limb(a, n \div 15 + 1) \div 2^(n % 15)) % 2)
BAnyBelow(a, i) == Bind(a, LAMBDA x : \E j \in 0..(i - 1) : BBit(x, j) = 1)

\* number of significant bits
BBitLen(a) ==
    Bind(a, LAMBDA x :
        IF BIsZero(x) THEN 0
        ELSE Bind(CHOOSE i \in LimbIdx : x[i] # 0 /\ \A j \in LimbIdx : j > i => x[j] = 0,
                  LAMBDA top :
                      (top - 1) * 15
                      + (CHOOSE k \in 1..15 : 2^(k - 1) <= x[top] /\ x[top] < 2^k)))

FZero == [neg |-> FALSE, m |-> BZero, e |-> 0]
FHalf == [neg |-> FALSE, m |-> BFromInt(1), e |-> -1]
\* float(n) for an int |n| < 2^30
FFromInt(n) ==
    Bind(n, LAMBDA k : [neg |-> k < 0, m |-> BFromInt(IF k < 0 THEN -k ELSE k), e |-> 0])
FIsZero(a) == BIsZero(a.m)
FPositive(a) == Bind(a, LAMBDA x : ~x.neg /\ ~BIsZero(x.m))

\* The float nearest to M * 2^E, ties to the even mantissa.
RoundNearest(neg, M0, E) ==
    Bind(M0, LAMBDA M :
    Bind(BBitLen(M), LAMBDA n :
        IF n <= MantissaBits THEN [neg |-> neg, m |-> M, e |-> E]
        ELSE Bind(n - MantissaBits, LAMBDA k :
                 Bind(/\ BBit(M, k - 1) = 1
                      /\ (BAnyBelow(M, k - 1) \/ BBit(M, k) = 1),
                      LAMBDA up :
                          [neg |-> neg,
                           m |-> IF up THEN BAdd(BShr(M, k), BFromInt(1))
                                 ELSE BShr(M, k),
                           e |-> E + k]))))

\* One digit of schoolbook division in base 2^15, for R < D and D of exactly
\* 60 bits (Knuth's algorithm D): the digit estimated from the leading limbs
\* is at most 2 too large.
DivDigit(R, D0) ==
    Bind2(BShl(R, 15), D0, LAMBDA RB, D :
    Bind((RB[5] * Base + RB[4]) \div D[4], LAMBDA est :
    Bind(IF est > Base - 1 THEN Base - 1 ELSE est, LAMBDA q2 :
    Bind(BMulSmall(D, q2), LAMBDA P2 :
        IF ~BLess(RB, P2) THEN [q |-> q2, r |-> BSub(RB, P2)]
        ELSE Bind(BSub(P2, D), LAMBDA P1 :
                 IF ~BLess(RB, P1) THEN [q |-> q2 - 1, r |-> BSub(RB, P1)]
                 ELSE [q |-> q2 - 2, r |-> BSub(RB, BSub(P1, D))])))))

\* a / b for b # 0: both mantissas aligned to 60 bits, an integer bit and four
\* digits of quotient, a sticky bit for the remainder, rounded once
FDiv(a0, b0) ==
    Bind2(a0, b0, LAMBDA a, b :
    IF FIsZero(a) THEN FZero
    ELSE
    Bind2(BBitLen(a.m), BBitLen(b.m), LAMBDA na, nb :
    Bind2(BShl(a.m, 60 - na), BShl(b.m, 60 - nb), LAMBDA N, D :
    Bind(IF BLess(N, D) THEN 0 ELSE 1, LAMBDA q0 :
    Bind(DivDigit(IF q0 = 1 THEN BSub(N, D) ELSE N, D), LAMBDA d1 :
    Bind(DivDigit(d1.r, D), LAMBDA d2 :
    Bind(DivDigit(d2.r, D), LAMBDA d3 :
    Bind(DivDigit(d3.r, D), LAMBDA d4 :
    Bind(IF BIsZero(d4.r) THEN 0 ELSE 1, LAMBDA sticky :
        RoundNearest(a.neg # b.neg,
                     BAdd(BShl(<<d4.q, d3.q, d2.q, d1.q, q0, 0>>, 1), BFromInt(sticky)),
                     a.e - b.e + na - nb - 61))))))))))

\* k * a for an int 0 <= k < 2^15
FMulInt(k, a0) ==
    Bind(a0, LAMBDA a :
        IF k = 0 \/ FIsZero(a) THEN FZero
        ELSE RoundNearest(a.neg, BMulSmall(a.m, k), a.e))

\* a + b for a, b >= 0
FAdd(a0, b0) ==
    Bind2(a0, b0, LAMBDA a, b :
        IF FIsZero(a) THEN b
        ELSE IF FIsZero(b) THEN a
        ELSE Bind(IF a.e < b.e THEN a.e ELSE b.e, LAMBDA e :
                 RoundNearest(FALSE, BAdd(BShl(a.m, a.e - e), BShl(b.m, b.e - e)), e)))

\* a < b for a, b >= 0
FLess(a0, b0) ==
    Bind2(a0, b0, LAMBDA a, b :
        Bind(IF a.e < b.e THEN a.e ELSE b.e, LAMBDA e :
            BLess(BShl(a.m, a.e - e), BShl(b.m, b.e - e))))

\* round(a, 2) in hundredths: the exact value of a, to the nearest hundredth,
\* ties to the even one
Round2(a0) ==
    Bind(a0, LAMBDA a :
    Bind(BMulSmall(a.m, 100), LAMBDA M :
    Bind(IF a.e >= 0 THEN BToInt(BShl(M, a.e))
         ELSE Bind2(-a.e, BToInt(BShr(M, -a.e)), LAMBDA k, q :
                  IF /\ BBit(M, k - 1) = 1
                     /\ (BAnyBelow(M, k - 1) \/ q % 2 = 1)
                  THEN q + 1 ELSE q),
         LAMBDA h : IF a.neg THEN -h ELSE h)))

(***************************************************************************)
(* aggregate_sentiment.                                                    *)
(***************************************************************************)
Sentiments == {"bullish", "neutral", "bearish"}

\* sum(1 for r in results if r.get("sentiment") == s)
CountSentiment(rs, s) ==
    Cardinality({ i \in 1..Len(rs) : Get(rs[i], "sentiment", "absent") = s })

\* Variant: a zero-confidence result is dropped from the average.
WeightDropped(confidence) ==
    IF confidence > 0 THEN FDiv(FFromInt(confidence), FFromInt(100)) ELSE FZero

\* Variant: the weight is confidence / 100.0 whatever the confidence.
WeightRaw(confidence) == FDiv(FFromInt(confidence), FFromInt(100))

\* confidence / 100.0 if confidence > 0 else 0.5
Weight(confidence) ==
    IF confidence > 0 THEN FDiv(FFromInt(confidence), FFromInt(100)) ELSE FHalf

\* The for loop: total_weight and weighted_score after the first n results;
\* raised when a comparison or product is a TypeError.
RECURSIVE WeightedLoop(_, _)
WeightedLoop(rs, n) ==
    IF n = 0 THEN [raised |-> FALSE, total_weight |-> FZero, weighted_score |-> FZero]
    ELSE Bind2(WeightedLoop(rs, n - 1), rs[n], LAMBDA acc, r :
         Bind2(Get(r, "confidence", Num(50)), Get(r, "score", Num(50)),
               LAMBDA confidence, score :
             IF acc.raised \/ ~confidence.isnum \/ ~score.isnum
             THEN [raised |-> TRUE, total_weight |-> FZero, weighted_score |-> FZero]
             ELSE Bind(Weight(confidence.val), LAMBDA weight :
                      [raised |-> FALSE,
                       total_weight |-> FAdd(acc.total_weight, weight),
                       weighted_score |->
                           FAdd(acc.weighted_score, FMulInt(score.val, weight))])))

\* weighted_score / total_weight if total_weight > 0 else 50
FinalScore(weighted_score, total_weight) ==
    IF FPositive(total_weight) THEN FDiv(weighted_score, total_weight)
    ELSE FFromInt(50)

\* "Determine overall sentiment"
OverallSentiment(final_score) ==
    IF ~FLess(final_score, FFromInt(60)) THEN "bullish"
    ELSE IF ~FLess(FFromInt(40), final_score) THEN "bearish"
    ELSE "neutral"

RECURSIVE SumConfidence(_, _)
SumConfidence(rs, n) ==
    IF n = 0 THEN 0 ELSE SumConfidence(rs, n - 1) + Get(rs[n], "confidence", Num(50)).val

\* The dict returned for "if not results"
EmptyVerdict ==
    [final_score |-> 5000, sentiment |-> "neutral", news_count |-> 0,
     avg_confidence |-> 0, bullish_count |-> 0, bearish_count |-> 0,
     neutral_count |-> 0]

aggregate_sentiment(rs) ==
    IF Len(rs) = 0 THEN Return(EmptyVerdict)
    ELSE Bind(WeightedLoop(rs, Len(rs)), LAMBDA loop :
         IF loop.raised THEN Raise("TypeError")
         ELSE Bind2(FinalScore(loop.weighted_score, loop.total_weight),
                    FDiv(FFromInt(SumConfidence(rs, Len(rs))), FFromInt(Len(rs))),
                    LAMBDA final_score, avg_confidence :
                  Return(
                    [final_score |-> Round2(final_score),
                     sentiment |-> OverallSentiment(final_score),
                     news_count |-> Len(rs),
                     avg_confidence |-> Round2(avg_confidence),
                     bullish_count |-> CountSentiment(rs, "bullish"),
                     bearish_count |-> CountSentiment(rs, "bearish"),
                     neutral_count |-> CountSentiment(rs, "neutral"),
                     details |-> rs])))

(***************************************************************************)
(* analyze_news_batch, followed by aggregate_sentiment as analyze_stock    *)
(* and the module's own driver call them.                                  *)
(*                                                                         *)
(* A future is named by its submission number f; its task was submitted    *)
(* with the article news_list[f].  Its task is:                            *)
(*   unsubmitted -> pending -> running -> calling -> finished | raised     *)
(* pending: in the executor's work queue; running: a worker thread is in   *)
(* analyze_single_news before the backend call; calling: the POST is in    *)
(* flight; finished / raised: the future holds a result / an exception.    *)
(***************************************************************************)
\* The backend outcomes drawn in the batch model: one failure, one unparsable
\* text, one fenced well-formed object and one bare ill-formed object.
BatchOutcomes ==
    { [kind |-> "timeout", text |-> NoText],
      [kind |-> "text", text |-> <<"prose">>],
      [kind |-> "text", text |-> <<"FENCE", "json", "obj_ok">>],
      [kind |-> "text", text |-> <<"obj_range">>] }

Futures == 1..Len(news_list)
Done(f) == fut[f].state \in {"finished", "raised"}
Active(f) == fut[f].state \in {"running", "calling"}

Yielded == { yielded[k] : k \in 1..Len(yielded) }

\* Variant: a worker error is logged and the slot is left as it was.
CollectedValueNoFallback(f, idx) ==
    IF fut[f].state = "finished" THEN fut[f].value ELSE None

\* The body of the collecting loop's try: future.result(), or the default result
\* of the article at idx when that raises.
CollectedValue(f, idx) ==
    IF fut[f].state = "finished" THEN fut[f].value
    ELSE _default_result(news_list[idx])

\* Variant: append-on-completion, the value goes to the first unfilled slot.
StoreResultAppend(rs, idx, value) ==
    LET free == { i \in 1..Len(rs) : rs[i] = None }
    IN  [rs EXCEPT ![CHOOSE i \in free : \A j \in free : i <= j] = value]

\* results[idx] = value
StoreResult(rs, idx, value) == [rs EXCEPT ![idx] = value]

\* Variant: a task whose call fell back to the default result is run again.
TaskEndRetry(news, r) ==
    IF r.raised THEN [state |-> "raised", value |-> None]
    ELSE IF r.value = _default_result(news) THEN [state |-> "running", value |-> None]
    ELSE [state |-> "finished", value |-> r.value]

\* The state a task is left in by the value or exception its call produced.
TaskEnd(news, r) ==
    IF r.raised THEN [state |-> "raised", value |-> None]
    ELSE [state |-> "finished", value |-> r.value]

\* The key executor.submit(...) gets in future_to_idx for enumerate's i.
IdxOfSubmission(i) == i

InitBatch ==
    /\ news_list \in SeqsUpTo(Articles, MaxArticles)
    /\ max_workers \in 1..MaxPool
    /\ pc = "idle"
    /\ submitted = 0
    /\ future_to_idx = <<>>
    /\ fut = [f \in 1..Len(news_list) |-> [state |-> "unsubmitted", value |-> None]]
    /\ yielded = <<>>
    /\ results = <<>>
    /\ calls = [f \in 1..Len(news_list) |-> 0]
    /\ attempts = [f \in 1..Len(news_list) |-> 0]
    /\ verdict = None

\* total = len(news_list); results = [None] * total; the executor is created
BatchEnter ==
    /\ pc = "idle"
    /\ pc' = "submit"
    /\ results' = [i \in 1..Len(news_list) |-> None]
    /\ UNCHANGED <<news_list, max_workers, submitted, future_to_idx, fut, yielded,
                   calls, attempts, verdict>>

\* one iteration of the dict comprehension: executor.submit(...) : i
Submit ==
    /\ pc = "submit"
    /\ submitted < Len(news_list)
    /\ submitted' = submitted + 1
    /\ future_to_idx' = Append(future_to_idx, IdxOfSubmission(submitted + 1))
    /\ fut' = [fut EXCEPT ![submitted + 1].state = "pending"]
    /\ UNCHANGED <<news_list, max_workers, pc, yielded, results, calls, attempts,
                   verdict>>

\* the comprehension is exhausted; as_completed(future_to_idx) starts
BeginCollect ==
    /\ pc = "submit"
    /\ submitted = Len(news_list)
    /\ pc' = "collect"
    /\ UNCHANGED <<news_list, max_workers, submitted, future_to_idx, fut, yielded,
                   results, calls, attempts, verdict>>

\* Variant: every queued task gets a thread of its own at once.
StartTaskUnbounded(f) ==
    /\ fut[f].state = "pending"
    /\ fut' = [fut EXCEPT ![f].state = "running"]
    /\ attempts' = [attempts EXCEPT ![f] = @ + 1]
    /\ UNCHANGED <<news_list, max_workers, pc, submitted, future_to_idx, yielded,
                   results, calls, verdict>>

\* a free worker thread takes the oldest queued work item and enters
\* analyze_single_news
StartTask(f) ==
    /\ fut[f].state = "pending"
    /\ \A g \in 1..(f - 1) : fut[g].state # "pending"
    /\ Cardinality({ g \in Futures : Active(g) }) < max_workers
    /\ fut' = [fut EXCEPT ![f].state = "running"]
    /\ attempts' = [attempts EXCEPT ![f] = @ + 1]
    /\ UNCHANGED <<news_list, max_workers, pc, submitted, future_to_idx, yielded,
                   results, calls, verdict>>

\* the task raises before it reaches the try (building the prompt)
WorkerFault(f) ==
    /\ fut[f].state = "running"
    /\ fut' = [fut EXCEPT ![f] =
                  TaskEnd(news_list[f],
                          analyze_single_news(news_list[f], TRUE,
                                              [kind |-> "timeout", text |-> NoText]))]
    /\ UNCHANGED <<news_list, max_workers, pc, submitted, future_to_idx, yielded,
                   results, calls, attempts, verdict>>

\* requests.post is issued
CallBackend(f) ==
    /\ fut[f].state = "running"
    /\ fut' = [fut EXCEPT ![f].state = "calling"]
    /\ calls' = [calls EXCEPT ![f] = @ + 1]
    /\ UNCHANGED <<news_list, max_workers, pc, submitted, future_to_idx, yielded,
                   results, attempts, verdict>>

\* the POST ends with outcome o and analyze_single_news runs to its return
BackendReply(f, o) ==
    /\ fut[f].state = "calling"
    /\ fut' = [fut EXCEPT ![f] =
                  TaskEnd(news_list[f], analyze_single_news(news_list[f], FALSE, o))]
    /\ UNCHANGED <<news_list, max_workers, pc, submitted, future_to_idx, yielded,
                   results, calls, attempts, verdict>>

\* one iteration of "for future in as_completed(future_to_idx)"
Collect(f) ==
    /\ pc = "collect"
    /\ f \notin Yielded
    /\ Done(f)
    /\ results' = StoreResult(results, future_to_idx[f],
                              CollectedValue(f, future_to_idx[f]))
    /\ yielded' = Append(yielded, f)
    /\ UNCHANGED <<news_list, max_workers, pc, submitted, future_to_idx, fut, calls,
                   attempts, verdict>>

\* Variant: the executor is shut down without waiting and results is returned
\* after the futures already done have been collected.
BatchReturnNoWait ==
    /\ pc = "collect"
    /\ \A f \in Futures : Done(f) => f \in Yielded
    /\ pc' = "returned"
    /\ UNCHANGED <<news_list, max_workers, submitted, future_to_idx, fut, yielded,
                   results, calls, attempts, verdict>>

\* as_completed is exhausted, the with block ends (shutdown(wait=True)) and
\* results is returned
BatchReturn ==
    /\ pc = "collect"
    /\ Yielded = Futures
    /\ \A f \in Futures : ~Active(f) /\ fut[f].state # "pending"
    /\ pc' = "returned"
    /\ UNCHANGED <<news_list, max_workers, submitted, future_to_idx, fut, yielded,
                   results, calls, attempts, verdict>>

\* aggregated = aggregate_sentiment(analysis_results)
Aggregate ==
    /\ pc = "returned"
    /\ verdict' = aggregate_sentiment(results)
    /\ pc' = "aggregated"
    /\ UNCHANGED <<news_list, max_workers, submitted, future_to_idx, fut, yielded,
                   results, calls, attempts>>

(***************************************************************************)
(* analyze_single_news and aggregate_sentiment applied to drawn inputs.    *)
(***************************************************************************)
IdleScore ==
    /\ sc_news = <<>>
    /\ sc_fault = FALSE
    /\ sc_outcome = [kind |-> "timeout", text |-> NoText]
    /\ sc_pc = "off"
    /\ sc_result = None

IdleAgg ==
    /\ ag_input = <<>>
    /\ ag_pc = "off"
    /\ ag_out = None

IdleBatch ==
    /\ news_list = <<>>
    /\ max_workers = 1
    /\ pc = "off"
    /\ submitted = 0
    /\ future_to_idx = <<>>
    /\ fut = <<>>
    /\ yielded = <<>>
    /\ results = <<>>
    /\ calls = <<>>
    /\ attempts = <<>>
    /\ verdict = None

InitScore ==
    /\ sc_news \in Articles
    /\ sc_fault \in BOOLEAN
    /\ sc_outcome \in BackendOutcomes
    /\ sc_pc = "call"
    /\ sc_result = None

\* result = analyzer.analyze_single_news(news)
Score ==
    /\ sc_pc = "call"
    /\ sc_result' = analyze_single_news(sc_news, sc_fault, sc_outcome)
    /\ sc_pc' = "done"
    /\ UNCHANGED <<sc_news, sc_fault, sc_outcome>>

\* The Judgments drawn as input of aggregate_sentiment: what the Scorer can
\* return for scores and confidences around the thresholds, and the ill-formed
\* records it passes through.
ScoreValues == {0, 40, 41, 59, 60, 100}
ConfidenceValues == {0, 3, 99, 100}
Judgment(s, sc, c) ==
    [sentiment |-> s, score |-> Num(sc), confidence |-> Num(c), reason |-> "r",
     title |-> "t1", source |-> "Reuters", published_utc |-> "2026-02-05"]
JudgmentPool ==
    { Judgment("bearish", sc, c) : sc \in ScoreValues, c \in ConfidenceValues }
    \cup { Judgment("bullish", sc, c) : sc \in {60, 100}, c \in {3, 100} }
    \cup { AttachNews(JsonObject(tok), CHOOSE a \in Articles : "title" \in DOMAIN a) :
             tok \in RecTokens }
    \cup { _default_result(a) : a \in Articles }

InitAgg ==
    /\ ag_input \in SeqsUpTo(JudgmentPool, MaxJudgments)
    /\ ag_pc = "call"
    /\ ag_out = None

\* aggregated = analyzer.aggregate_sentiment(results)
AggregateInput ==
    /\ ag_pc = "call"
    /\ ag_out' = aggregate_sentiment(ag_input)
    /\ ag_pc' = "done"
    /\ UNCHANGED ag_input

(***************************************************************************)
(* Specifications.                                                         *)
(***************************************************************************)
Init == InitBatch /\ IdleScore /\ IdleAgg

Next ==
    \/ (BatchEnter /\ UNCHANGED <<scoreVars, aggVars>>)
    \/ (Submit /\ UNCHANGED <<scoreVars, aggVars>>)
    \/ (BeginCollect /\ UNCHANGED <<scoreVars, aggVars>>)
    \/ (\E f \in Futures : StartTask(f) /\ UNCHANGED <<scoreVars, aggVars>>)
    \/ (\E f \in Futures : WorkerFault(f) /\ UNCHANGED <<scoreVars, aggVars>>)
    \/ (\E f \in Futures : CallBackend(f) /\ UNCHANGED <<scoreVars, aggVars>>)
    \/ (\E f \in Futures, o \in BatchOutcomes :
            BackendReply(f, o) /\ UNCHANGED <<scoreVars, aggVars>>)
    \/ (\E f \in Futures : Collect(f) /\ UNCHANGED <<scoreVars, aggVars>>)
    \/ (BatchReturn /\ UNCHANGED <<scoreVars, aggVars>>)
    \/ (Aggregate /\ UNCHANGED <<scoreVars, aggVars>>)

Spec == Init /\ [][Next]_vars

InitS == IdleBatch /\ InitScore /\ IdleAgg
NextS == Score /\ UNCHANGED <<batchVars, aggVars>>
SpecScore == InitS /\ [][NextS]_vars

InitA == IdleBatch /\ IdleScore /\ InitAgg
NextA == AggregateInput /\ UNCHANGED <<batchVars, scoreVars>>
SpecAgg == InitA /\ [][NextA]_vars

(***************************************************************************)
(* Properties.                                                             *)
(***************************************************************************)
Returned == pc \in {"returned", "aggregated"}

\* C1: analyze_news_batch returns a list as long as its input whose element i
\* is the Judgment produced by the task of article i, whatever the order in
\* which the tasks completed; it carries article i's title, source and date.
C1_IndexAligned ==
    Returned =>
        /\ Len(results) = Len(news_list)
        /\ \A i \in 1..Len(news_list) :
              /\ results[i] # None
              /\ fut[i].state = "finished" => results[i] = fut[i].value
              /\ results[i].title = Get(news_list[i], "title", "")
              /\ results[i].source = Get(news_list[i], "source", "")
              /\ results[i].published_utc = Get(news_list[i], "published_utc", "")

\* C1 witness: the batch returned after the last article's task was collected
\* first, and the first and last slots hold different Judgments.
C1_Witness ==
    /\ pc = "returned"
    /\ Len(news_list) >= 2
    /\ yielded[1] = Len(news_list)
    /\ results[1] # results[Len(news_list)]
    /\ news_list[1] # news_list[Len(news_list)]

\* C2: when analyze_news_batch has returned (and so when aggregate_sentiment
\* runs), every submitted task has finished or raised, none is queued or in
\* flight, and no result slot is None.
C2_CompleteThenReturn ==
    Returned =>
        /\ submitted = Len(news_list)
        /\ \A f \in Futures : Done(f)
        /\ \A i \in 1..Len(results) : results[i] # None
        /\ Len(results) = Len(news_list)

\* C2 witness: the aggregate step ran over a full result list of a batch whose
\* tasks had to queue for the single worker.
C2_Witness ==
    /\ pc = "aggregated"
    /\ max_workers = 1
    /\ Len(news_list) >= 2
    /\ ~verdict.raised
    /\ verdict.value.news_count = Len(news_list)

\* C3: a task that raised gets the default Judgment of its own article in its
\* own slot, every other slot keeps the Judgment of its own task, and the batch
\* is not stopped by the failure: until it has returned a step remains possible.
C3_FailureIsolated ==
    /\ Returned =>
          \A f \in Futures :
              fut[f].state = "raised" =>
                  /\ results[f] = _default_result(news_list[f])
                  /\ \A g \in Futures \ {f} :
                        fut[g].state = "finished" => results[g] = fut[g].value
    /\ ((\E f \in Futures : fut[f].state = "raised") /\ ~Returned) => ENABLED Next

\* C3 witness: the batch returned with one task raised and a sibling's own
\* non-default Judgment in the sibling's slot.
C3_Witness ==
    /\ pc = "returned"
    /\ \E f, g \in Futures :
          /\ fut[f].state = "raised"
          /\ fut[g].state = "finished"
          /\ results[g].sentiment = "bullish"
          /\ results[f].reason = "Analysis failed, using default"

\* The backend outcome is a failure: no reply text, or a text that is not one
\* JSON object (none in it at all, or unfenced text that is not exactly one).
NoRecordIn(t) == \A i \in 1..Len(t) : t[i] \notin RecTokens
BackendFailed(o) ==
    \/ o.kind \in FailureKinds
    \/ /\ o.kind = "text"
       /\ \/ NoRecordIn(o.text)
          \/ /\ ~HasFence(o.text)
             /\ ~(\E i \in 1..Len(o.text) :
                     /\ o.text[i] \in RecTokens
                     /\ \A j \in 1..Len(o.text) : j # i => o.text[j] = "ws")

\* C4: for every failing backend outcome analyze_single_news returns (does not
\* raise) exactly the default Judgment with the article's title, source and
\* published_utc.
C4_FailureYieldsDefault ==
    (sc_pc = "done" /\ ~sc_fault /\ BackendFailed(sc_outcome)) =>
        sc_result =
            [raised |-> FALSE,
             value |-> [sentiment |-> "neutral", score |-> Num(50),
                        confidence |-> Num(0),
                        reason |-> "Analysis failed, using default",
                        title |-> Get(sc_news, "title", ""),
                        source |-> Get(sc_news, "source", ""),
                        published_utc |-> Get(sc_news, "published_utc", "")]]

\* C4 witness: a fenced reply without a JSON object in it was scored for an
\* article that has a title, and the default Judgment came back.
C4_Witness ==
    /\ sc_pc = "done"
    /\ ~sc_fault
    /\ sc_outcome.kind = "text"
    /\ HasFenceJson(sc_outcome.text)
    /\ BackendFailed(sc_outcome)
    /\ "title" \in DOMAIN sc_news
    /\ ~sc_result.raised
    /\ sc_result.value.title = sc_news.title
    /\ sc_result.value.reason = "Analysis failed, using default"

WellFormedJudgment(j) ==
    /\ {"sentiment", "score", "confidence", "reason"} \subseteq DOMAIN j
    /\ j.sentiment \in Sentiments
    /\ j.score.isnum /\ j.score.val >= 0 /\ j.score.val <= 100
    /\ j.confidence.isnum /\ j.confidence.val >= 0 /\ j.confidence.val <= 100

\* C5: every Judgment analyze_single_news returns has the four required
\* fields, a sentiment among bullish, neutral, bearish, and score and
\* confidence in [0,100].
C5_JudgmentWellFormed ==
    (sc_pc = "done" /\ ~sc_result.raised) => WellFormedJudgment(sc_result.value)

\* C6: aggregate_sentiment of the empty sequence returns exactly the zero
\* Verdict, details: [] included.
C6_EmptyVerdictHasDetails ==
    (ag_pc = "done" /\ ag_input = <<>>) =>
        ag_out =
            [raised |-> FALSE,
             value |-> [final_score |-> 5000, sentiment |-> "neutral",
                        news_count |-> 0, avg_confidence |-> 0,
                        bullish_count |-> 0, bearish_count |-> 0,
                        neutral_count |-> 0, details |-> <<>>]]

\* C7: every Verdict aggregate_sentiment returns for a result of
\* analyze_news_batch has bullish_count + neutral_count + bearish_count
\* = news_count = len(details).
C7_CountsAddUp ==
    (pc = "aggregated" /\ ~verdict.raised) =>
        LET v == verdict.value
        IN  /\ "details" \in DOMAIN v
            /\ v.bullish_count + v.neutral_count + v.bearish_count = v.news_count
            /\ v.news_count = Len(v.details)

\* The claimed weighting, in units of 1/100: confidence when it is positive,
\* 50 (that is 0.5) when it is 0.
ClaimedWeight(c) == IF c > 0 THEN c ELSE 50
RECURSIVE ClaimedNum(_, _)
ClaimedNum(rs, n) ==
    IF n = 0 THEN 0
    ELSE ClaimedNum(rs, n - 1) + rs[n].score.val * ClaimedWeight(rs[n].confidence.val)
RECURSIVE ClaimedDen(_, _)
ClaimedDen(rs, n) ==
    IF n = 0 THEN 0 ELSE ClaimedDen(rs, n - 1) + ClaimedWeight(rs[n].confidence.val)

\* A non-empty sequence of Judgments with numeric scores and confidences >= 0.
Weighable(rs) ==
    /\ Len(rs) > 0
    /\ \A i \in 1..Len(rs) :
          /\ {"score", "confidence"} \subseteq DOMAIN rs[i]
          /\ rs[i].score.isnum
          /\ rs[i].confidence.isnum /\ rs[i].confidence.val >= 0

Abs(x) == IF x < 0 THEN -x ELSE x

\* C8: for a non-empty Judgment sequence the reported final_score is
\* sum(score*w)/sum(w), w = confidence/100 for confidence > 0 and 0.5 for
\* confidence 0, to within the rounding to 2 places; {100,100} with {0,0}
\* gives 66.67 and bullish.
C8_WeightedAverage ==
    (ag_pc = "done" /\ Weighable(ag_input)) =>
        LET num == ClaimedNum(ag_input, Len(ag_input))
            den == ClaimedDen(ag_input, Len(ag_input))
        IN  /\ ~ag_out.raised
            /\ den > 0
            /\ 2 * Abs(ag_out.value.final_score * den - 100 * num) <= den
            /\ ( /\ Len(ag_input) = 2
                 /\ ag_input[1].score.val = 100 /\ ag_input[1].confidence.val = 100
                 /\ ag_input[2].score.val = 0 /\ ag_input[2].confidence.val = 0 )
               => ( ag_out.value.final_score = 6667
                    /\ ag_out.value.sentiment = "bullish" )

\* C8 witness: {score 100, confidence 100} with {score 0, confidence 0} was
\* aggregated to 66.67.
C8_Witness ==
    /\ ag_pc = "done"
    /\ Weighable(ag_input)
    /\ Len(ag_input) = 2
    /\ ag_input[1].score = Num(100) /\ ag_input[1].confidence = Num(100)
    /\ ag_input[2].score = Num(0) /\ ag_input[2].confidence = Num(0)
    /\ ag_out.value.final_score = 6667

\* C9: the Verdict's sentiment is bullish when the weighted score is >= 60,
\* bearish when it is <= 40 and neutral strictly between, whatever the
\* per-article sentiments are.
C9_Thresholds ==
    (ag_pc = "done" /\ Weighable(ag_input)) =>
        LET num == ClaimedNum(ag_input, Len(ag_input))
            den == ClaimedDen(ag_input, Len(ag_input))
        IN  /\ ~ag_out.raised
            /\ ag_out.value.sentiment =
                  IF num >= 60 * den THEN "bullish"
                  ELSE IF num <= 40 * den THEN "bearish"
                  ELSE "neutral"

\* C10: one task is submitted per article, the scorer is entered at most once
\* and the backend called at most once per article; a raised task's slot is
\* filled without another attempt.
C10_NoRetry ==
    /\ submitted <= Len(news_list)
    /\ Len(future_to_idx) = submitted
    /\ \A f \in Futures : attempts[f] <= 1 /\ calls[f] <= attempts[f]
    /\ Returned =>
          /\ \A i \in 1..Len(news_list) :
                Cardinality({ f \in Futures : future_to_idx[f] = i }) = 1
          /\ \A f \in Futures : attempts[f] = 1
          /\ \A f \in Futures : fut[f].state = "raised" => calls[f] = 0

\* C10 witness: the batch returned with a slot holding the default Judgment
\* after exactly one backend call, and another filled by the worker-level
\* fallback without any.
C10_Witness ==
    /\ pc = "returned"
    /\ \E f, g \in Futures :
          /\ fut[f].state = "finished"
          /\ results[f] = _default_result(news_list[f])
          /\ calls[f] = 1
          /\ fut[g].state = "raised"
          /\ results[g] = _default_result(news_list[g])
          /\ calls[g] = 0

\* C11: in every Verdict returned by aggregate_sentiment the sentiment is the
\* one the thresholds give for the reported final_score (rounded to 2 places):
\* bullish for >= 60, bearish for <= 40, neutral otherwise.
C11_ReportedThresholds ==
    (ag_pc = "done" /\ ~ag_out.raised) =>
        ag_out.value.sentiment =
            IF ag_out.value.final_score >= 6000 THEN "bullish"
            ELSE IF ag_out.value.final_score <= 4000 THEN "bearish"
            ELSE "neutral"

\* C12: at every moment of a batch run at most max_workers tasks are executing
\* and at most max_workers backend calls are in flight; a queued task is
\* started as soon as a worker is free, and when the batch has returned every
\* article's task has run, exactly once.
C12_PoolBound ==
    /\ Cardinality({ f \in Futures : Active(f) }) <= max_workers
    /\ Cardinality({ f \in Futures : fut[f].state = "calling" }) <= max_workers
    /\ ( /\ \E f \in Futures : fut[f].state = "pending"
         /\ Cardinality({ f \in Futures : Active(f) }) < max_workers )
       => ENABLED (\E f \in Futures : StartTask(f) /\ UNCHANGED <<scoreVars, aggVars>>)
    /\ Returned => \A f \in Futures : Done(f) /\ attempts[f] = 1

\* C12 witness: more articles than workers, every worker busy with a backend
\* call and a task still waiting in the queue.
C12_Witness ==
    /\ Len(news_list) > max_workers
    /\ Cardinality({ f \in Futures : fut[f].state = "calling" }) = max_workers
    /\ \E f \in Futures : fut[f].state = "pending"

\* A non-empty sequence of Judgments whose score and confidence, where present,
\* are numbers.
Numeric(rs) ==
    /\ Len(rs) > 0
    /\ \A i \in 1..Len(rs) :
          /\ Get(rs[i], "score", Num(50)).isnum
          /\ Get(rs[i], "confidence", Num(50)).isnum

====
